---- MODULE Spec2Model ----
(***************************************************************************)
(* The LC-3 virtual machine of src/src/main.c: the register file, the       *)
(* memory, lsc_sign_extend, lsc_update_flags and the run loop of main.      *)
(*                                                                         *)
(* Three specifications are given.                                         *)
(*   Spec      main as written: the image loader and the instruction fetch *)
(*             are stubs, so every fetched instruction word is 0.          *)
(*   SpecExec  the switch statement of main (lines 242-360) applied to     *)
(*             arbitrary instruction words and register contents: the      *)
(*             opcode handlers as code, independent of the fetch stub.     *)
(*   SpecSE    lsc_sign_extend applied to arbitrary masked fields.         *)
(***************************************************************************)
EXTENDS Integers, Naturals, Sequences, FiniteSets, TLC

(***************************************************************************)
(* Bounds of the model.                                                    *)
(***************************************************************************)
\* largest argc explored by Spec
MaxArgc == 4
\* number of instructions SpecExec executes in one run
MaxSteps == 2
\* SpecSE draws v from 0..MaxV, from 65535-MaxV..65535 and around powers of two
MaxV == 300

(***************************************************************************)
(* Program constants.                                                      *)
(***************************************************************************)
LSC_MEMORY_MAX == 65536

LSC_R_R0 == 0
LSC_R_R1 == 1
LSC_R_R7 == 7
LSC_R_PC == 8
LSC_R_COND == 9
LSC_R_COUNT == 10

LSC_OP_BR == 0
LSC_OP_ADD == 1
LSC_OP_LD == 2
LSC_OP_ST == 3
LSC_OP_JSR == 4
LSC_OP_AND == 5
LSC_OP_LDR == 6
LSC_OP_STR == 7
LSC_OP_RTI == 8
LSC_OP_NOT == 9
LSC_OP_LDI == 10
LSC_OP_STI == 11
LSC_OP_JMP == 12
LSC_OP_RES == 13
LSC_OP_LEA == 14
LSC_OP_TRAP == 15

LSC_FL_POS == 1
LSC_FL_ZRO == 2
LSC_FL_NEG == 4

PC_START == 12288

(***************************************************************************)
(* C integer arithmetic.  uint16_t operands are promoted to 32-bit int;    *)
(* a store into a uint16_t keeps the low 16 bits.                          *)
(***************************************************************************)
Pow2(n) == 2 ^ n

U16(n) == n % 65536

RECURSIVE BitAnd(_, _)
BitAnd(a, b) ==
    IF a = 0 \/ b = 0 THEN 0
    ELSE (a % 2) * (b % 2) + 2 * BitAnd(a \div 2, b \div 2)

RECURSIVE BitOr(_, _)
BitOr(a, b) ==
    IF a = 0 THEN b
    ELSE IF b = 0 THEN a
    ELSE (IF a % 2 = 1 \/ b % 2 = 1 THEN 1 ELSE 0) + 2 * BitOr(a \div 2, b \div 2)

ShiftRight(a, n) == a \div Pow2(n)

\* the low 16 bits of a << n, for a 16-bit a and 0 <= n <= 16.  The shift is
\* done on a 32-bit int; gcc (the makefile's compiler) keeps the low 32 bits
\* of the product also for n = 16, and only bits 15..0 reach a uint16_t.
ShiftLeft(a, n) == (a % Pow2(16 - n)) * Pow2(n)

(***************************************************************************)
(* lsc_sign_extend                                                         *)
(***************************************************************************)
\* variant: `x = (0xFFFF << bit_count)` in place of `x |= ...`
lsc_sign_extend_assign(x, bit_count) ==
    IF BitAnd(ShiftRight(x, bit_count - 1), 1) # 0
    THEN U16(ShiftLeft(65535, bit_count))
    ELSE x

\* variant: the sign test reads bit bit_count in place of bit bit_count - 1
lsc_sign_extend_wrong_bit(x, bit_count) ==
    IF BitAnd(ShiftRight(x, bit_count), 1) # 0
    THEN U16(BitOr(x, ShiftLeft(65535, bit_count)))
    ELSE x

lsc_sign_extend(x, bit_count) ==
    IF BitAnd(ShiftRight(x, bit_count - 1), 1) # 0
    THEN U16(BitOr(x, ShiftLeft(65535, bit_count)))
    ELSE x


(***************************************************************************)
(* State.                                                                  *)
(*   pc          position of main: "start", "load", "init", "fetch",       *)
(*               "exec", "exit_2" (exit(2)), "returned" (return 0),        *)
(*               "crashed" (the process faulted); for SpecSE "se_call",    *)
(*               "se_body", "se_return"                                    *)
(*   argc, j     main's argument count and the loader loop's counter       *)
(*   lsc_reg     the register file, LSC_R_COUNT cells                      *)
(*   lsc_memory  the cells of lsc_memory that have been stored to, all     *)
(*               other cells hold 0 (static storage)                       *)
(*   running, instr, op   the locals of main                               *)
(*   layout      where the build placed lsc_memory relative to lsc_reg     *)
(*   steps       number of instructions fetched (bounds SpecExec)          *)
(*   v, bit_count, x   SpecSE: the word drawn, and lsc_sign_extend's       *)
(*               parameters                                                *)
(***************************************************************************)
VARIABLES pc, argc, j, lsc_reg, lsc_memory, running, instr, op, layout, steps,
          v, bit_count, x

vars == <<pc, argc, j, lsc_reg, lsc_memory, running, instr, op, layout, steps,
          v, bit_count, x>>

machine == <<argc, j, lsc_reg, lsc_memory, running, instr, op, layout, steps>>

se_vars == <<v, bit_count, x>>

RegIndex == 0 .. LSC_R_COUNT - 1

\* uint16_t lsc_memory[LSC_MEMORY_MAX], zero-initialised
EmptyMemory == [c \in {} |-> 0]

MemAt(mem, a) == IF a \in DOMAIN mem THEN mem[a] ELSE 0

MemStore(mem, a, val) ==
    [c \in (DOMAIN mem) \cup {a} |-> IF c = a THEN val ELSE mem[c]]

\* LSC_REGISTER lsc_reg, zero-initialised
ZeroRegisters == [r \in RegIndex |-> 0]

(***************************************************************************)
(* Storage layout.  lsc_update_flags indexes its LSC_REGISTER* parameter   *)
(* as an array of register files, so it touches cells beyond lsc_reg.      *)
(* What lies there depends on the build:                                   *)
(*   kind "mem"      lsc_memory starts `base` uint16_t cells after the     *)
(*                   start of lsc_reg (10: packed, 16 and 32: lsc_memory   *)
(*                   aligned to 32 and 64 bytes)                           *)
(*   kind "apart"    other mapped storage, not part of the machine         *)
(*   kind "unmapped" no mapped storage: the access faults                  *)
(***************************************************************************)
Layouts ==
    [kind : {"mem"}, base : {10, 16, 32}]
        \cup [kind : {"apart", "unmapped"}, base : {0}]

\* which object cell c of lsc_reg (counted in uint16_t) lies in
Access(c, lay) ==
    IF c \in RegIndex THEN "reg"
    ELSE IF lay.kind = "mem"
         THEN (IF c >= lay.base /\ c - lay.base < LSC_MEMORY_MAX
               THEN "mem" ELSE "apart")
         ELSE lay.kind

\* the values a read of cell c can yield; storage that is not the machine's
\* may hold a word with bit 15 clear or set
LoadCell(c, reg, mem, lay) ==
    CASE Access(c, lay) = "reg" -> {reg[c]}
      [] Access(c, lay) = "mem" -> {MemAt(mem, c - lay.base)}
      [] Access(c, lay) = "apart" -> {0, 32768}
      [] OTHER -> {}

\* the machine state after a store of val to cell c
StoreCell(c, val, reg, mem, lay) ==
    CASE Access(c, lay) = "reg" ->
            [reg |-> [reg EXCEPT ![c] = val], mem |-> mem, fault |-> FALSE]
      [] Access(c, lay) = "mem" ->
            [reg |-> reg, mem |-> MemStore(mem, c - lay.base, val), fault |-> FALSE]
      [] Access(c, lay) = "apart" ->
            [reg |-> reg, mem |-> mem, fault |-> FALSE]
      [] OTHER ->
            [reg |-> reg, mem |-> mem, fault |-> TRUE]

(***************************************************************************)
(* lsc_update_flags(r, reg) with reg = &lsc_reg.                           *)
(* reg[r] is the r-th LSC_REGISTER after lsc_reg: `reg[r] == 0` compares   *)
(* the address of that array with the null pointer, and *reg[r] is cell    *)
(* r * LSC_R_COUNT of lsc_reg.  The result is the set of machine states    *)
(* the call can leave.                                                     *)
(***************************************************************************)
RegCell(r) == r * LSC_R_COUNT

RegArrayIsNull(r) == FALSE

UpdateFlagsValue(r, word) ==
    IF RegArrayIsNull(r) THEN LSC_FL_ZRO
    ELSE IF ShiftRight(word, 15) # 0 THEN LSC_FL_NEG
    ELSE LSC_FL_NEG

lsc_update_flags(r, reg, mem, lay) ==
    IF Access(RegCell(r), lay) = "unmapped"
    THEN {[reg |-> reg, mem |-> mem, fault |-> TRUE]}
    ELSE {StoreCell(RegCell(LSC_R_COND), UpdateFlagsValue(r, word), reg, mem, lay) :
              word \in LoadCell(RegCell(r), reg, mem, lay)}

(***************************************************************************)
(* The opcode handlers of main's switch statement, as the register file    *)
(* they leave before any call of lsc_update_flags.                         *)
(***************************************************************************)
\* case LSC_OP_ADD
\* variant: the DR field masked with 0xF in place of 0x7
ADD_dr_wide(i) == BitAnd(ShiftRight(i, 9), 15)

ADD_dr(i) == BitAnd(ShiftRight(i, 9), 7)

ADD_sr(i) == BitAnd(ShiftRight(i, 6), 7)

ADD_mode(i) == BitAnd(ShiftRight(i, 5), 1)

\* variant: imm5 used without sign extension
ADD_n2_no_extend(i, reg) ==
    IF BitAnd(ShiftRight(i, 5), 1) = 1
    THEN BitAnd(i, 31)
    ELSE reg[BitAnd(i, 7)]

ADD_n2(i, reg) ==
    IF ADD_mode(i) = 1
    THEN lsc_sign_extend(BitAnd(i, 31), 5)
    ELSE reg[BitAnd(i, 7)]

\* variant: DR is written with SR1's value before operand 2 is read
ExecADD_dr_first(i, reg) ==
    LET moved == [reg EXCEPT ![ADD_dr(i)] = reg[ADD_sr(i)]]
    IN  [moved EXCEPT ![ADD_dr(i)] = U16(moved[ADD_dr(i)] + ADD_n2(i, moved))]

ExecADD(i, reg) ==
    [reg EXCEPT ![ADD_dr(i)] = U16(reg[ADD_sr(i)] + ADD_n2(i, reg))]

\* case LSC_OP_AND
AND_dr(i) == BitAnd(ShiftRight(i, 9), 7)

AND_sr1(i) == BitAnd(ShiftRight(i, 6), 7)

AND_mode(i) == BitAnd(ShiftRight(i, 5), 1)

AND_n2(i, reg) ==
    IF AND_mode(i) = 1
    THEN BitAnd(i, 31)
    ELSE reg[BitAnd(i, 7)]

ExecAND(i, reg) ==
    [reg EXCEPT ![AND_dr(i)] = BitAnd(reg[AND_sr1(i)], AND_n2(i, reg))]

\* case LSC_OP_LDI: the locals are computed, the load itself is not written
LDI_pcoffset9(i) == lsc_sign_extend(BitAnd(i, 9), 9)

LDI_dr(i) == BitAnd(ShiftRight(i, 9), 3)

LDI_pc_address(i, reg) == U16(reg[LSC_R_PC] + LDI_pcoffset9(i))

ExecLDI(i, reg) == reg

\* variant: the TRAP case saves the return address, R7 = PC, as JSR does
Handler_trap_links(o, i, reg) ==
    CASE o = LSC_OP_ADD -> ExecADD(i, reg)
      [] o = LSC_OP_AND -> ExecAND(i, reg)
      [] o = LSC_OP_LDI -> ExecLDI(i, reg)
      [] o = LSC_OP_TRAP -> [reg EXCEPT ![LSC_R_R7] = reg[LSC_R_PC]]
      [] OTHER -> reg

\* every other case is `break`
Handler(o, i, reg) ==
    CASE o = LSC_OP_ADD -> ExecADD(i, reg)
      [] o = LSC_OP_AND -> ExecAND(i, reg)
      [] o = LSC_OP_LDI -> ExecLDI(i, reg)
      [] OTHER -> reg

\* the cases that end with lsc_update_flags(dr, &lsc_reg), and their dr
CallsUpdateFlags(o) == o \in {LSC_OP_ADD, LSC_OP_AND, LSC_OP_LDI}

FlagArg(o, i) ==
    CASE o = LSC_OP_ADD -> ADD_dr(i)
      [] o = LSC_OP_AND -> AND_dr(i)
      [] OTHER -> LDI_dr(i)

\* the machine states one pass through the switch can leave
Execute(o, i, reg, mem, lay) ==
    IF CallsUpdateFlags(o)
    THEN lsc_update_flags(FlagArg(o, i), Handler(o, i, reg), mem, lay)
    ELSE {[reg |-> Handler(o, i, reg), mem |-> mem, fault |-> FALSE]}

(***************************************************************************)
(* main                                                                    *)
(***************************************************************************)
\* variant: `argc < 1` in place of `argc < 2`
CheckArgs_one_arg ==
    /\ pc = "start"
    /\ IF argc < 1
       THEN pc' = "exit_2" /\ j' = j
       ELSE pc' = "load" /\ j' = 1
    /\ UNCHANGED <<argc, lsc_reg, lsc_memory, running, instr, op, layout, steps>>
    /\ UNCHANGED se_vars

\* if (argc < 2) { printf(usage); exit(2); }
CheckArgs ==
    /\ pc = "start"
    /\ IF argc < 2
       THEN pc' = "exit_2" /\ j' = j
       ELSE pc' = "load" /\ j' = 1
    /\ UNCHANGED <<argc, lsc_reg, lsc_memory, running, instr, op, layout, steps>>
    /\ UNCHANGED se_vars

\* for (int j = 1; j < argc; ++j) { /* STUB */ }
LoadImages ==
    /\ pc = "load"
    /\ IF j < argc
       THEN pc' = pc /\ j' = j + 1
       ELSE pc' = "init" /\ j' = j
    /\ UNCHANGED <<argc, lsc_reg, lsc_memory, running, instr, op, layout, steps>>
    /\ UNCHANGED se_vars

\* variant: the program counter is left at its static value 0
InitMachine_pc_unset ==
    /\ pc = "init"
    /\ lsc_reg' = [lsc_reg EXCEPT ![LSC_R_COND] = LSC_FL_ZRO]
    /\ running' = 1
    /\ pc' = "fetch"
    /\ UNCHANGED <<argc, j, lsc_memory, instr, op, layout, steps>>
    /\ UNCHANGED se_vars

\* lsc_reg[LSC_R_COND] = LSC_FL_ZRO; lsc_reg[LSC_R_PC] = PC_START; int running = 1;
InitMachine ==
    /\ pc = "init"
    /\ lsc_reg' = [lsc_reg EXCEPT ![LSC_R_COND] = LSC_FL_ZRO, ![LSC_R_PC] = PC_START]
    /\ running' = 1
    /\ pc' = "fetch"
    /\ UNCHANGED <<argc, j, lsc_memory, instr, op, layout, steps>>
    /\ UNCHANGED se_vars

\* while (running) { uint16_t instr = 0; uint16_t op = instr >> 12;
Fetch ==
    /\ pc = "fetch"
    /\ IF running # 0
       THEN /\ instr' = 0
            /\ op' = ShiftRight(instr', 12)
            /\ pc' = "exec"
       ELSE /\ pc' = "returned"
            /\ UNCHANGED <<instr, op>>
    /\ UNCHANGED <<argc, j, lsc_reg, lsc_memory, running, layout, steps>>
    /\ UNCHANGED se_vars

\* switch (op) { ... } and back to the loop test
Dispatch ==
    /\ pc = "exec"
    /\ \E out \in Execute(op, instr, lsc_reg, lsc_memory, layout) :
          /\ lsc_reg' = out.reg
          /\ lsc_memory' = out.mem
          /\ pc' = IF out.fault THEN "crashed" ELSE "fetch"
    /\ UNCHANGED <<argc, j, running, instr, op, layout, steps>>
    /\ UNCHANGED se_vars

Init ==
    /\ pc = "start"
    /\ argc \in 0 .. MaxArgc
    /\ j = 0
    /\ lsc_reg = ZeroRegisters
    /\ lsc_memory = EmptyMemory
    /\ running = 0
    /\ instr = 0
    /\ op = 0
    /\ layout \in Layouts
    /\ steps = 0
    /\ v = 0
    /\ bit_count = 1
    /\ x = 0

Next == CheckArgs \/ LoadImages \/ InitMachine \/ Fetch \/ Dispatch

Spec == Init /\ [][Next]_vars

\* the process is scheduled until it exits: every enabled step is taken
FairSpec == Spec /\ WF_vars(Next)

(***************************************************************************)
(* SpecExec: the switch statement on arbitrary instruction words.          *)
(* The fetch of main is a placeholder (`instr = 0`); here the word that    *)
(* reaches `op = instr >> 12` and the switch is any word of Instrs, and     *)
(* R0 and R1 start with arbitrary contents, so that every handler runs.    *)
(***************************************************************************)
Enc(o, operands) == o * 4096 + operands

\* operand fields of ADD and AND: DR, SR1, then SR2 = R1 or 1:imm5 (1, -16, -1)
AluOperands ==
    {dr * 512 + sr1 * 64 + low : dr \in {0, 1, 5}, sr1 \in {0, 1},
                                 low \in {1, 33, 48, 63}}

\* every opcode with all operand fields 0, the ADD and AND forms above,
\* LDI R1 #0, LDI R5 #-1, TRAP x25, BRnzp #1
Instrs ==
    {Enc(o, f) : o \in {LSC_OP_ADD, LSC_OP_AND}, f \in AluOperands}
        \cup {Enc(o, 0) : o \in 0 .. 15}
        \cup {Enc(LSC_OP_LDI, 1 * 512), Enc(LSC_OP_LDI, 5 * 512 + 511),
              Enc(LSC_OP_TRAP, 37), Enc(LSC_OP_BR, 7 * 512 + 1)}

ExecRegValues0 == {1, 32767, 65535}

ExecRegValues1 == {0, 65520, 65535}

InitExec ==
    /\ pc = "fetch"
    /\ argc = 2
    /\ j = 2
    /\ \E a \in ExecRegValues0, b \in ExecRegValues1 :
          lsc_reg = [ZeroRegisters EXCEPT ![LSC_R_R0] = a, ![LSC_R_R1] = b,
                                          ![LSC_R_COND] = LSC_FL_ZRO,
                                          ![LSC_R_PC] = PC_START]
    /\ lsc_memory = EmptyMemory
    /\ running = 1
    /\ instr = 0
    /\ op = 0
    /\ layout \in Layouts
    /\ steps = 0
    /\ v = 0
    /\ bit_count = 1
    /\ x = 0

\* while (running) { instr = <word>; op = instr >> 12;
FetchAny ==
    /\ pc = "fetch"
    /\ running # 0
    /\ steps < MaxSteps
    /\ instr' \in Instrs
    /\ op' = ShiftRight(instr', 12)
    /\ steps' = steps + 1
    /\ pc' = "exec"
    /\ UNCHANGED <<argc, j, lsc_reg, lsc_memory, running, layout>>
    /\ UNCHANGED se_vars

NextExec == FetchAny \/ Dispatch

SpecExec == InitExec /\ [][NextExec]_vars

(***************************************************************************)
(* SpecSE: lsc_sign_extend on the low bit_count bits of a 16-bit word, as  *)
(* its callers use it: lsc_sign_extend(instr & mask, bit_count).           *)
(***************************************************************************)
LowMask(b) == Pow2(b) - 1

SEWords ==
    ((0 .. MaxV) \cup {65535 - k : k \in 0 .. MaxV}
        \cup {Pow2(k) + d : k \in 0 .. 16, d \in {-2, -1, 0, 1}})
    \cap (0 .. 65535)

InitSE ==
    /\ pc = "se_call"
    /\ v \in SEWords
    /\ bit_count \in 1 .. 16
    /\ x = 0
    /\ argc = 0
    /\ j = 0
    /\ lsc_reg = ZeroRegisters
    /\ lsc_memory = EmptyMemory
    /\ running = 0
    /\ instr = 0
    /\ op = 0
    /\ layout = [kind |-> "apart", base |-> 0]
    /\ steps = 0

\* the caller masks the field: lsc_sign_extend(instr & 0x1F, 5)
SignExtendCall ==
    /\ pc = "se_call"
    /\ x' = BitAnd(v, LowMask(bit_count))
    /\ pc' = "se_body"
    /\ UNCHANGED <<v, bit_count>>
    /\ UNCHANGED machine

\* if ((x >> (bit_count - 1)) & 1) { x |= (0xFFFF << bit_count); } return x;
SignExtendBody ==
    /\ pc = "se_body"
    /\ x' = lsc_sign_extend(x, bit_count)
    /\ pc' = "se_return"
    /\ UNCHANGED <<v, bit_count>>
    /\ UNCHANGED machine

NextSE == SignExtendCall \/ SignExtendBody

SpecSE == InitSE /\ [][NextSE]_vars

(***************************************************************************)
(* The instruction set as the specification states it (sections 4.1-4.3),  *)
(* written with arithmetic on the instruction word.                        *)
(***************************************************************************)
OpcodeOf(i) == i \div 4096

DRField(i) == (i \div 512) % 8

SR1Field(i) == (i \div 64) % 8

SR2Field(i) == i % 8

ImmMode(i) == (i \div 32) % 2 = 1

\* the signed value of the low b bits of f
SignedField(f, b) ==
    IF (f % Pow2(b)) >= Pow2(b - 1) THEN (f % Pow2(b)) - Pow2(b) ELSE f % Pow2(b)

\* the 16-bit two's-complement encoding of n, -32768 <= n < 65536
Encode16(n) == (n + 65536) % 65536

Operand2(i, reg) ==
    IF ImmMode(i) THEN Encode16(SignedField(i, 5)) ELSE reg[SR2Field(i)]

FlagFor(w) ==
    IF w = 0 THEN LSC_FL_ZRO
    ELSE IF w >= 32768 THEN LSC_FL_NEG
    ELSE LSC_FL_POS

FlagUpdatingOps ==
    {LSC_OP_ADD, LSC_OP_AND, LSC_OP_NOT, LSC_OP_LD, LSC_OP_LDI, LSC_OP_LDR,
     LSC_OP_LEA}

\* the step about to run executes TRAP x25 (HALT)
HaltTrap == pc = "exec" /\ op = LSC_OP_TRAP /\ (instr % 256) = 37

\* the register-mode ADD with the DR and SR1 of i and the given SR2
RegisterForm(i, sr2) == Enc(LSC_OP_ADD, DRField(i) * 512 + SR1Field(i) * 64 + sr2)

\* the previous pass through the switch executed instr and returned to the loop test
Executed == pc = "fetch" /\ steps > 0

(***************************************************************************)
(* C1 (SpecExec).  After a step that executes ADD, AND, NOT, LD, LDI, LDR  *)
(* or LEA with destination register DR, the condition-flags register holds *)
(* the one flag that matches DR's final value: ZERO if DR = 0, NEGATIVE if *)
(* bit 15 of DR is 1, POSITIVE otherwise.                                  *)
(* The code never stores into lsc_reg[LSC_R_COND]: TLC refutes this.       *)
(***************************************************************************)
C1_FlagsMatchDR ==
    (Executed /\ op \in FlagUpdatingOps)
        => lsc_reg[LSC_R_COND] = FlagFor(lsc_reg[DRField(instr)])

(***************************************************************************)
(* C2 (Spec).  Every iteration of the run loop while running fetches the   *)
(* cell memory[PC], increments PC by 1 modulo 65536 before the handler     *)
(* runs, and dispatches on bits 15..12 of the fetched cell.                *)
(* The fetch of main is a placeholder that leaves PC alone: TLC refutes    *)
(* this.                                                                   *)
(***************************************************************************)
C2_FetchIncrementDispatch ==
    [][(pc = "fetch" /\ running # 0)
          => /\ instr' = MemAt(lsc_memory, lsc_reg[LSC_R_PC])
             /\ lsc_reg'[LSC_R_PC] = (lsc_reg[LSC_R_PC] + 1) % 65536
             /\ op' = OpcodeOf(instr')
             /\ pc' = "exec"]_vars

(***************************************************************************)
(* C3 (FairSpec).  Once the run loop is entered it eventually terminates,  *)
(* and it ends with R0 = 10 and R1 = 0 (the loop program of the comment at *)
(* lines 103-110).  No step of main clears `running`: TLC refutes this.    *)
(***************************************************************************)
C3_LoopProgramHalts ==
    (pc = "fetch")
        ~> (pc = "returned" /\ lsc_reg[LSC_R_R0] = 10 /\ lsc_reg[LSC_R_R1] = 0)

(***************************************************************************)
(* C4 (SpecExec).  `running` goes from set to clear only in a step that    *)
(* executes TRAP with vector x25 (HALT), and a step that executes TRAP x25 *)
(* does clear it.  The TRAP case is `break`: TLC refutes the second half.  *)
(***************************************************************************)
C4_HaltOnlyByTrap ==
    [][/\ (running # 0 /\ running' = 0) => HaltTrap
       /\ HaltTrap => running' = 0]_vars

(***************************************************************************)
(* C5 (SpecSE).  For every 16-bit v and every width b in 1..16, sign       *)
(* extending the low b bits of v and masking the result to b bits again    *)
(* gives the low b bits of v.                                              *)
(***************************************************************************)
C5_RoundTrip ==
    (pc = "se_return") => ((x % Pow2(bit_count)) = (v % Pow2(bit_count)))

\* the field 10110 (-10) of the word 22 was extended to xFFF6
C5_Witness ==
    pc = "se_return" /\ bit_count = 5 /\ v = 22 /\ x = 65526

(***************************************************************************)
(* C6 (SpecSE).  For bit_count in 1..16 and x with no bit set at or above  *)
(* bit_count, lsc_sign_extend(x, bit_count) is the 16-bit two's-complement *)
(* encoding of the signed bit_count-bit value of x: when bit bit_count - 1 *)
(* of x is 1, every bit at or above bit_count is 1 in the result and the   *)
(* low bit_count bits are those of x; otherwise the result is x.           *)
(***************************************************************************)
C6_SignExtendValue ==
    [][(pc = "se_body" /\ x < Pow2(bit_count))
          => /\ x' = Encode16(SignedField(x, bit_count))
             /\ IF (x \div Pow2(bit_count - 1)) % 2 = 1
                THEN /\ (x' \div Pow2(bit_count)) = Pow2(16 - bit_count) - 1
                     /\ (x' % Pow2(bit_count)) = x
                ELSE x' = x]_vars

\* the 9-bit field x1FF (-1) was extended to xFFFF
C6_Witness ==
    pc = "se_return" /\ bit_count = 9 /\ (v % 512) = 511 /\ x = 65535

(***************************************************************************)
(* C7 (SpecExec).  A step that executes ADD sets register DR (bits 11..9)  *)
(* to (SR1's value + operand2) modulo 65536, where SR1 is bits 8..6 and    *)
(* operand2 is the sign-extended imm5 when bit 5 is 1 and register bits    *)
(* 2..0 otherwise, both read before DR is written.                         *)
(***************************************************************************)
C7_AddResult ==
    [][(pc = "exec" /\ op = LSC_OP_ADD)
          => lsc_reg'[DRField(instr)]
                = (lsc_reg[SR1Field(instr)] + Operand2(instr, lsc_reg)) % 65536]_vars

\* ADD R1, R0, R1 (DR = SR2) has run from R0 = 1, R1 = xFFFF and left R1 = 0
C7_Witness ==
    /\ Executed
    /\ instr = Enc(LSC_OP_ADD, 512 + 1)
    /\ lsc_reg[LSC_R_R0] = 1
    /\ lsc_reg[LSC_R_R1] = 0
    /\ steps = 1

(***************************************************************************)
(* C8 (SpecExec).  For every register state and every imm5, ADD in         *)
(* immediate mode leaves the same DR value and the same condition flags as *)
(* ADD in register mode with the same DR and SR1, when the SR2 register    *)
(* holds the sign-extended imm5.                                           *)
(***************************************************************************)
C8_ImmRegAgree ==
    (pc = "exec" /\ op = LSC_OP_ADD /\ ImmMode(instr))
        => \A sr2 \in 0 .. 7 :
              lsc_reg[sr2] = Encode16(SignedField(instr, 5))
                  => \A a \in Execute(op, instr, lsc_reg, lsc_memory, layout),
                        b \in Execute(op, RegisterForm(instr, sr2), lsc_reg,
                                      lsc_memory, layout) :
                        /\ a.reg[DRField(instr)] = b.reg[DRField(instr)]
                        /\ a.reg[LSC_R_COND] = b.reg[LSC_R_COND]

\* ADD R5, R0, #-16 is about to run while R1 holds xFFF0, the same operand
C8_Witness ==
    /\ pc = "exec"
    /\ instr = Enc(LSC_OP_ADD, 5 * 512 + 48)
    /\ lsc_reg[LSC_R_R1] = 65520
    /\ lsc_reg[LSC_R_R0] = 32767

(***************************************************************************)
(* C9 (SpecExec).  AND decodes its operands as ADD does: a step that       *)
(* executes AND sets DR to the bitwise AND of SR1's value with operand2,   *)
(* where operand2 is the sign-extended imm5 when bit 5 is 1 (so an imm5    *)
(* with bit 4 set has bits 15..5 all 1) and register bits 2..0 otherwise.  *)
(* The AND case uses imm5 without extending it: TLC refutes this.          *)
(***************************************************************************)
C9_AndDecodesLikeAdd ==
    [][(pc = "exec" /\ op = LSC_OP_AND)
          => lsc_reg'[DRField(instr)]
                = BitAnd(lsc_reg[SR1Field(instr)], Operand2(instr, lsc_reg))]_vars

(***************************************************************************)
(* C10 (SpecExec).  A step that executes LDI sets DR (bits 11..9) to       *)
(* memory[memory[(PC + PCoffset9) mod 65536]] with PCoffset9 the sign-     *)
(* extended bits 8..0, and then sets the flags from DR.                    *)
(* The LDI case stores nothing into DR: TLC refutes this.                  *)
(***************************************************************************)
C10_LdiLoads ==
    [][(pc = "exec" /\ op = LSC_OP_LDI)
          => LET pointer == (lsc_reg[LSC_R_PC] + Encode16(SignedField(instr, 9))) % 65536
                 loaded == MemAt(lsc_memory, MemAt(lsc_memory, pointer))
             IN  /\ lsc_reg'[DRField(instr)] = loaded
                 /\ lsc_reg'[LSC_R_COND] = FlagFor(loaded)]_vars

(***************************************************************************)
(* C11 (SpecExec).  A step that executes BR with condition mask bits 11..9 *)
(* and PCoffset9 the sign-extended bits 8..0 adds PCoffset9 to the program *)
(* counter modulo 65536 exactly when (mask AND condition flags) is nonzero *)
(* and otherwise leaves the program counter alone; R0..R7, the condition   *)
(* flags and memory are unchanged either way.                              *)
(* The BR case is `break`: a taken branch does not move PC, TLC refutes    *)
(* this.                                                                   *)
(***************************************************************************)
C11_BranchOnFlags ==
    [][(pc = "exec" /\ op = LSC_OP_BR)
          => /\ lsc_reg'[LSC_R_PC]
                   = IF BitAnd(DRField(instr), lsc_reg[LSC_R_COND]) # 0
                     THEN (lsc_reg[LSC_R_PC] + Encode16(SignedField(instr, 9))) % 65536
                     ELSE lsc_reg[LSC_R_PC]
             /\ \A r \in (0 .. 7) \cup {LSC_R_COND} : lsc_reg'[r] = lsc_reg[r]
             /\ lsc_memory' = lsc_memory]_vars

(***************************************************************************)
(* C12 (SpecExec).  After JSR or JSRR located at address A, R7 holds       *)
(* (A + 1) mod 65536 and the program counter holds the jump target: the    *)
(* incremented PC plus the sign-extended bits 10..0 when bit 11 is 1, the  *)
(* value of register bits 8..6 otherwise; JMP sets the program counter to  *)
(* the value of register bits 8..6, so JMP through R7 returns to A + 1.    *)
(* The fetch leaves PC at A and the JSR and JMP cases are `break`: TLC     *)
(* refutes this.                                                           *)
(***************************************************************************)
C12_JsrLinksAndJumps ==
    [][/\ (pc = "exec" /\ op = LSC_OP_JSR)
             => LET next == (lsc_reg[LSC_R_PC] + 1) % 65536
                IN  /\ lsc_reg'[LSC_R_R7] = next
                    /\ lsc_reg'[LSC_R_PC]
                          = IF (instr \div 2048) % 2 = 1
                            THEN (next + Encode16(SignedField(instr, 11))) % 65536
                            ELSE lsc_reg[SR1Field(instr)]
       /\ (pc = "exec" /\ op = LSC_OP_JMP)
             => lsc_reg'[LSC_R_PC] = lsc_reg[SR1Field(instr)]]_vars

(***************************************************************************)
(* C13 (SpecExec).  A step that executes an instruction with opcode RTI or *)
(* RES is a fatal decode error: the run loop stops and no further          *)
(* instruction is fetched.                                                 *)
(* Both cases are `break`, the loop goes on to the next fetch: TLC refutes *)
(* this.                                                                   *)
(***************************************************************************)
C13_ReservedOpcodeStops ==
    [][(pc = "exec" /\ op \in {LSC_OP_RTI, LSC_OP_RES})
          => (pc' \notin {"fetch", "exec"} \/ running' = 0)]_vars

(***************************************************************************)
(* C14 (Spec).  With memory all zero, every fetched instruction is BR with *)
(* condition mask 0, it never branches, and the program counter advances   *)
(* by one on every iteration (x3000, x3001, ...).                          *)
(* The fetch leaves PC at x3000 on every iteration: TLC refutes this.      *)
(***************************************************************************)
C14_ZeroMemoryAdvances ==
    [][/\ (pc = "fetch" /\ running # 0)
             => /\ OpcodeOf(instr') = LSC_OP_BR
                /\ DRField(instr') = 0
                /\ lsc_reg'[LSC_R_PC] = (lsc_reg[LSC_R_PC] + 1) % 65536
       /\ (pc = "exec")
             => /\ lsc_reg'[LSC_R_PC] = lsc_reg[LSC_R_PC]
                /\ pc' = "fetch"]_vars

(***************************************************************************)
(* C15 (Spec).  When the first instruction is fetched (the state the       *)
(* initialisation leaves), the program counter is x3000, the condition     *)
(* flags register is ZERO, R0..R7 are all 0 and every memory cell is 0.    *)
(***************************************************************************)
C15_InitialMachine ==
    [][(pc = "init")
          => /\ pc' = "fetch"
             /\ lsc_reg'[LSC_R_PC] = 12288
             /\ lsc_reg'[LSC_R_COND] = LSC_FL_ZRO
             /\ \A r \in 0 .. 7 : lsc_reg'[r] = 0
             /\ \A a \in DOMAIN lsc_memory' : lsc_memory'[a] = 0]_vars

\* the run loop is at its first fetch, after two image arguments
C15_Witness ==
    /\ pc = "fetch"
    /\ argc = 3
    /\ running = 1
    /\ lsc_reg[LSC_R_PC] = 12288
    /\ lsc_reg[LSC_R_COND] = LSC_FL_ZRO

(***************************************************************************)
(* C16 (Spec).  With no image argument (argc < 2) the process ends with    *)
(* exit status 2 without initialising the machine or executing an          *)
(* instruction; with at least one image argument the run loop is entered   *)
(* only after every listed image has been processed (j = argc).            *)
(***************************************************************************)
C16_UsageError ==
    /\ (argc < 2)
          => /\ pc \in {"start", "exit_2"}
             /\ lsc_reg = ZeroRegisters
             /\ running = 0
    /\ (pc \in {"init", "fetch", "exec", "returned", "crashed"})
          => (argc >= 2 /\ j = argc)

\* exit(2) was taken with the program name as the only argument
C16_Witness ==
    pc = "exit_2" /\ argc = 1 /\ running = 0 /\ lsc_reg = ZeroRegisters

(***************************************************************************)
(* C17 (SpecExec).  A step that executes BR, JMP, JSR/JSRR, ST, STI, STR   *)
(* or TRAP (any vector) leaves the condition-flags register unchanged, and *)
(* a TRAP step leaves R7 unchanged.                                        *)
(***************************************************************************)
C17_NoFlagUpdate ==
    [][(pc = "exec" /\ op \in {LSC_OP_BR, LSC_OP_JMP, LSC_OP_JSR, LSC_OP_ST,
                               LSC_OP_STI, LSC_OP_STR, LSC_OP_TRAP})
          => /\ lsc_reg'[LSC_R_COND] = lsc_reg[LSC_R_COND]
             /\ (op = LSC_OP_TRAP => lsc_reg'[LSC_R_R7] = lsc_reg[LSC_R_R7])]_vars

\* TRAP x25 has run as the second instruction: flags still ZERO, R7 still 0
C17_Witness ==
    /\ Executed
    /\ steps = 2
    /\ instr = Enc(LSC_OP_TRAP, 37)
    /\ lsc_reg[LSC_R_COND] = LSC_FL_ZRO
    /\ lsc_reg[LSC_R_R7] = 0

(***************************************************************************)
(* C18 (SpecExec).  Every operation is memory-safe: the flag update for    *)
(* register r reads register r itself and writes the condition-flags slot  *)
(* itself, both among the 10 slots of the register file, and no step ends  *)
(* in a fault.                                                             *)
(* lsc_update_flags reads cell 10 * r and writes cell 90 of lsc_reg: TLC   *)
(* refutes this.                                                           *)
(***************************************************************************)
C18_MemorySafe ==
    /\ pc # "crashed"
    /\ (pc = "exec" /\ CallsUpdateFlags(op))
          => /\ RegCell(FlagArg(op, instr)) = FlagArg(op, instr)
             /\ RegCell(LSC_R_COND) = LSC_R_COND
             /\ Access(RegCell(FlagArg(op, instr)), layout) = "reg"
             /\ Access(RegCell(LSC_R_COND), layout) = "reg"

(***************************************************************************)
(* C19 (SpecExec).  In every state from initialisation onward, after any   *)
(* sequence of instructions, the condition-flags register holds exactly    *)
(* one of POSITIVE (1), ZERO (2), NEGATIVE (4).                            *)
(***************************************************************************)
C19_OneFlag ==
    lsc_reg[LSC_R_COND] \in {1, 2, 4}

\* two ADDs have run, R0 went from x7FFF to x8001, and one flag is set
C19_Witness ==
    /\ Executed
    /\ steps = 2
    /\ op = LSC_OP_ADD
    /\ lsc_reg[LSC_R_R0] = 32769
    /\ lsc_reg[LSC_R_COND] \in {1, 2, 4}

(***************************************************************************)
(* C20 (SpecExec).  A step that executes ADD or AND changes at most the    *)
(* destination register DR, one of R0..R7, and the condition-flags         *)
(* register: every other register (the program counter included), every    *)
(* memory cell and the running flag are unchanged.                         *)
(* The store of lsc_update_flags lands in lsc_memory when it follows       *)
(* lsc_reg in storage: TLC refutes this.                                   *)
(***************************************************************************)
C20_AluFrame ==
    [][(pc = "exec" /\ op \in {LSC_OP_ADD, LSC_OP_AND})
          => /\ DRField(instr) \in 0 .. 7
             /\ \A r \in RegIndex \ {DRField(instr), LSC_R_COND} :
                   lsc_reg'[r] = lsc_reg[r]
             /\ \A a \in (DOMAIN lsc_memory) \cup (DOMAIN lsc_memory') :
                   MemAt(lsc_memory', a) = MemAt(lsc_memory, a)
             /\ running' = running]_vars

====
